---- MODULE Spec2Model ----
(***************************************************************************)
(* The barrier pass of src/src/xform/barrier_analysis.rs: discovery        *)
(* (GatherModulesToCut), graph construction (GraphVisitor), barrier-level  *)
(* analysis and submodule construction (DependencyGraph) and the rewrite   *)
(* (CutModules), run on one module of a system.                            *)
(*                                                                         *)
(* A node is addressed by its integer key.  An expression is a record      *)
(* [key, op, args]; args are operand keys.  BaseNode handles are keys, so  *)
(* a HashMap<usize, BaseNode> whose value is the node of its key is the    *)
(* set of its keys.                                                        *)
(***************************************************************************)
EXTENDS Integers, Sequences, FiniteSets, TLC

\* ------------------------------------------------------------------ bounds
MaxSeeds == 2
MaxBody == 3
MaxBarriers == 2
MaxPushes == 2
MaxNodes == 6

\* ------------------------------------------------------- sequence helpers
Range(s) == {s[i] : i \in DOMAIN s}

Contains(s, x) == \E i \in DOMAIN s : s[i] = x

RECURSIVE SetToSortedSeq(_)
SetToSortedSeq(S) ==
  IF S = {} THEN <<>>
  ELSE LET m == CHOOSE x \in S : \A y \in S : x <= y
       IN <<m>> \o SetToSortedSeq(S \ {m})

Reverse(s) == [i \in 1..Len(s) |-> s[Len(s) + 1 - i]]

Perms(S) == {p \in [1..Cardinality(S) -> S] : \A i, j \in DOMAIN p : p[i] = p[j] => i = j}

Min(a, b) == IF a < b THEN a ELSE b

\* A loop updates its accumulator before its next iteration: Then(v, e) is e,
\* with v evaluated first.
Then(v, e) == IF v = v THEN e ELSE e

\* --------------------------------------------------- nodes outside the body
\* Keys of the nodes that are no expressions of the module under analysis:
\* its input FIFOs (one more than MaxSeeds, for the wide modules), an IntImm,
\* an array, the callee modules and their FIFOs.
InFifo(i) == i
ConstKey == MaxSeeds + 2
ArrayKey == MaxSeeds + 3
Callee(c) == MaxSeeds + 3 + c
OutFifo(j) == MaxSeeds + 3 + MaxPushes + j
FirstKey == MaxSeeds + 3 + 2 * MaxPushes + 1

\* ------------------------------------------------------------ input modules
\* Keys of the module's expressions ascend in program order from FirstKey:
\* the FIFOPop seeds, the compute expressions, the barriers, a Store, the
\* pushes, and one Bind and AsyncCall per callee.
Vals(nseed, j) == {FirstKey - 1 + i : i \in 1..(nseed + j)}

\* The opcodes of compute expressions: Add stands for the binary opcodes
\* that the rewrite clones; an expression of another opcode counts twice
\* towards the node budget maxn.
Exotic == {"Mod", "Slice", "BitCast"}

Weight(body) == Len(body) + Cardinality({i \in DOMAIN body : body[i].op \in Exotic})

\* The compute expressions that may follow the values vals.
Choices(vals, exotic) ==
  {[op |-> o, args |-> <<p[1], p[2]>>] :
      o \in {"Add"} \cup (IF exotic THEN {"Mod"} ELSE {}),
      p \in {q \in vals \X (vals \cup {ConstKey}) : q[2] = ConstKey \/ q[1] <= q[2]}}
  \cup (IF exotic THEN {[op |-> "Slice", args |-> <<x, ConstKey, ConstKey>>] : x \in vals} ELSE {})
  \cup (IF exotic THEN {[op |-> "BitCast", args |-> <<x>>] : x \in vals} ELSE {})
  \cup (IF vals = {} THEN {[op |-> "Add", args |-> <<ConstKey, ConstKey>>]} ELSE {})

\* The bodies of len compute expressions over nseed seeds that leave room,
\* in a budget of maxn nodes, for a tail of one expression at least.
RECURSIVE Bodies(_, _, _)
Bodies(nseed, len, maxn) ==
  IF len = 0 THEN {<<>>}
  ELSE UNION {{Append(b, c) : c \in Choices(Vals(nseed, len - 1), nseed + Weight(b) + 2 < maxn)}
              : b \in {x \in Bodies(nseed, len - 1, maxn) : nseed + Weight(x) + 1 < maxn}}

\* The bodies of Bodies(nseed, len, maxn) whose opcodes are all in ops.
RECURSIVE BodiesOver(_, _, _, _)
BodiesOver(ops, nseed, len, maxn) ==
  IF len = 0 THEN {<<>>}
  ELSE UNION {{Append(b, c) : c \in {x \in Choices(Vals(nseed, len - 1), nseed + Weight(b) + 2 < maxn) :
                                       x.op \in ops}}
              : b \in {x \in BodiesOver(ops, nseed, len - 1, maxn) : nseed + Weight(x) + 1 < maxn}}

SeqsUpTo(S, n) == UNION {[1..k -> S] : k \in 0..n}

WithKeys(raw) == [i \in 1..Len(raw) |-> [key |-> FirstKey - 1 + i, op |-> raw[i].op, args |-> raw[i].args]]

Assemble(nseed, body, barrs, store, pushes, ncallee) ==
  LET seeds == [i \in 1..nseed |-> [op |-> "FIFOPop", args |-> <<InFifo(i)>>]]
      bars == [k \in 1..Len(barrs) |-> [op |-> "Barrier", args |-> <<barrs[k]>>]]
      sto == IF store = 0 THEN <<>> ELSE <<[op |-> "Store", args |-> <<ArrayKey, store>>]>>
      pus == [j \in 1..Len(pushes) |-> [op |-> "FIFOPush", args |-> <<OutFifo(j), pushes[j]>>]]
      nb == nseed + Len(body) + Len(barrs) + Len(sto) + Len(pushes)
      binds == [c \in 1..ncallee |-> [op |-> "Bind", args |-> <<Callee(c)>>]]
      calls == [c \in 1..ncallee |-> [op |-> "AsyncCall", args |-> <<FirstKey - 1 + nb + c>>]]
  IN WithKeys(seeds \o body \o bars \o sto \o pus \o binds \o calls)

\* The values of the body that no compute expression uses.
Unused(nseed, body) ==
  {v \in Vals(nseed, Len(body)) : \A i \in DOMAIN body : ~Contains(body[i].args, v)}

\* The barrier values, the stored value (0: no Store), the pushed values and
\* the number of callees that may follow a body: at most maxn seeds,
\* compute expressions, barriers, stores and pushes in all, no dead value
\* (each value is an operand of a later expression), one callee when there
\* is a push and a second one only for a second push.
TailsFor(vals, unused, room) ==
  UNION {UNION {UNION {
      {<<barrs, store, pushes, ncallee>> :
          ncallee \in (IF Len(pushes) = 0 THEN {0} ELSE 1..Min(2, Len(pushes)))}
      : pushes \in {q \in SeqsUpTo(vals, Min(MaxPushes, room - Len(barrs) - (IF store = 0 THEN 0 ELSE 1))) :
                      unused \subseteq Range(barrs) \cup {store} \cup Range(q)}}
      : store \in {0} \cup (IF room - Len(barrs) >= 1 THEN vals ELSE {})}
      : barrs \in SeqsUpTo(vals, Min(MaxBarriers, room))}

Tails(nseed, body, maxn) ==
  UNION {TailsFor(Vals(nseed, Len(body)), u, maxn - nseed - Weight(body))
         : u \in {Unused(nseed, body)}}

\* The tails of TailsFor(vals, unused, room) with a number of barriers in
\* nbarrs, a Store only if with_store, a number of pushes in npushes and a
\* number of callees in ncallees.
TailsAmong(vals, unused, room, nbarrs, with_store, npushes, ncallees) ==
  UNION {UNION {UNION {
      {<<barrs, store, pushes, ncallee>> :
          ncallee \in (IF Len(pushes) = 0 THEN {0} ELSE 1..Min(2, Len(pushes))) \cap ncallees}
      : pushes \in {q \in UNION {[1..k -> vals] :
                                   k \in (0..Min(MaxPushes, room - Len(barrs) - (IF store = 0 THEN 0 ELSE 1)))
                                          \cap npushes} :
                      unused \subseteq Range(barrs) \cup {store} \cup Range(q)}}
      : store \in {0} \cup (IF with_store /\ room - Len(barrs) >= 1 THEN vals ELSE {})}
      : barrs \in UNION {[1..k -> vals] : k \in (0..Min(MaxBarriers, room)) \cap nbarrs}}

TailsWith(nseed, body, maxn, nbarrs, with_store, npushes, ncallees) ==
  TailsAmong(Vals(nseed, Len(body)), Unused(nseed, body), maxn - nseed - Weight(body),
             nbarrs, with_store, npushes, ncallees)

\* The module m with the expression at position p moved up to position q:
\* the keys ascend in program order, so the expressions from q to p take new
\* keys and the operands follow them.
Interleave(m, p, q) ==
  LET ren(k) == IF k < FirstKey THEN k
                ELSE IF k = FirstKey - 1 + p THEN FirstKey - 1 + q
                ELSE IF k >= FirstKey - 1 + q /\ k < FirstKey - 1 + p THEN k + 1
                ELSE k
      at(i) == IF i < q \/ i > p THEN m[i] ELSE IF i = q THEN m[p] ELSE m[i - 1]
  IN [i \in DOMAIN m |->
        [key |-> ren(at(i).key), op |-> at(i).op,
         args |-> [j \in DOMAIN at(i).args |-> ren(at(i).args[j])]]]

\* The modules got from m by moving one of its pushes up, to right after the
\* expression that produces the pushed value, ahead of a compute expression.
EarlyPushes(m) ==
  {Interleave(m, p, m[p].args[2] - FirstKey + 2) :
     p \in {i \in DOMAIN m :
              /\ m[i].op = "FIFOPush"
              /\ \E j \in (m[i].args[2] - FirstKey + 2)..(i - 1) :
                   m[j].op \notin {"FIFOPop", "Barrier", "Store", "FIFOPush"}}}

ModuleNames == {"m"}

\* The names of the test harness modules.
HarnessNames == {"driver", "testbench"}

\* ------------------------------------------------------------------- state
VARIABLES
  name,     \* the module's name
  module,   \* the module's body as built by the front end
  pc,       \* position of the pass
  graph,    \* the DependencyGraph of the GraphVisitor, copied into the container
  walk,     \* the locals of gather_submodules and of its dfs
  cut       \* the IR under rewrite and the locals of cut_modules

vars == <<name, module, pc, graph, walk, cut>>

ExprOf(m, k) == m[CHOOSE i \in DOMAIN m : m[i].key = k]

IsExprKey(m, k) == \E i \in DOMAIN m : m[i].key = k

\* -------------------------------------------------------------- discovery
\* has_barrier set by every block intrinsic, a wait_until included, not only
\* by a Barrier.
HasBarrierAnyIntrinsic(nm, m) ==
  IF nm = "testbench" THEN FALSE
  ELSE \E i \in DOMAIN m : m[i].op \in {"Barrier", "WaitUntil"}

\* has_barrier set by every expression of a walked body, not only by a
\* Barrier.
HasBarrierUnconditional(nm, m) ==
  IF nm = "testbench" THEN FALSE
  ELSE \E i \in DOMAIN m : TRUE

\* GatherModulesToCut::visit_module / visit_expr: has_barrier after the walk.
HasBarrier(nm, m) ==
  IF nm = "testbench" THEN FALSE
  ELSE \E i \in DOMAIN m : m[i].op = "Barrier"

\* format!("{}_{}", original_module_name, order)
new_module_name(nm, order) == nm \o "_" \o ToString(order)

\* The name of module mod of the IR: 0 is the original module.
ModuleNameOf(nm, mod) == IF mod = 0 THEN nm ELSE new_module_name(nm, mod)

\* The modules of the IR ir that a walk of GatherModulesToCut::enter flags.
Flagged(nm, ir) == {mod \in DOMAIN ir : HasBarrier(ModuleNameOf(nm, mod), ir[mod])}

\* ------------------------------------------------------ graph construction
NewGraph ==
  [adjacency |-> <<>>, expr_hashmap |-> {}, caller_expr |-> {}, barrier_expr |-> {},
   barrier_list |-> <<>>, submodule_barrier_map |-> <<>>, module_ports |-> <<>>,
   module_outputs |-> <<>>, submodule_map |-> <<>>, submodule_order |-> <<>>]

add_edge(g, mom, child) ==
  [g EXCEPT !.adjacency = Append(@, [mom |-> mom, child |-> child])]

RECURSIVE AddOperandEdges(_, _, _, _)
AddOperandEdges(g, args, i, child) ==
  IF i > Len(args) THEN g
  ELSE AddOperandEdges(add_edge(g, args[i], child), args, i + 1, child)

\* visit_expr that records a barrier in barrier_list only, not in
\* barrier_expr.
VisitExprBarrierUnrecorded(g, e) ==
  LET is_barrier == e.op = "Barrier"
      is_output == e.op \in {"Bind", "AsyncCall"}
      g1 == IF is_barrier THEN [g EXCEPT !.barrier_list = Append(@, e.args[1])] ELSE g
      g2 == IF e.op = "FIFOPush" \/ is_output
            THEN [g1 EXCEPT !.caller_expr = @ \cup {e.key}] ELSE g1
      g4 == [g2 EXCEPT !.expr_hashmap = @ \cup {e.key}]
      g5 == IF e.op \in {"Load", "FIFOPop"}
            THEN [g4 EXCEPT !.module_ports = Append(@, e.key)] ELSE g4
  IN IF is_barrier \/ is_output THEN g2
     ELSE IF e.op \in {"FIFOPush", "Store"}
          THEN [g5 EXCEPT !.module_outputs = Append(@, e.args[2])]
     ELSE IF e.op = "Slice" THEN add_edge(g5, e.args[1], e.key)
     ELSE AddOperandEdges(g5, e.args, 1, e.key)

\* GraphVisitor::visit_expr
VisitExpr(g, e) ==
  LET is_barrier == e.op = "Barrier"
      is_output == e.op \in {"Bind", "AsyncCall"}
      g1 == IF is_barrier THEN [g EXCEPT !.barrier_list = Append(@, e.args[1])] ELSE g
      g2 == IF e.op = "FIFOPush" \/ is_output
            THEN [g1 EXCEPT !.caller_expr = @ \cup {e.key}] ELSE g1
      g3 == IF is_barrier THEN [g2 EXCEPT !.barrier_expr = @ \cup {e.key}] ELSE g2
      g4 == [g3 EXCEPT !.expr_hashmap = @ \cup {e.key}]
      g5 == IF e.op \in {"Load", "FIFOPop"}
            THEN [g4 EXCEPT !.module_ports = Append(@, e.key)] ELSE g4
  IN IF is_barrier \/ is_output THEN g3
     ELSE IF e.op \in {"FIFOPush", "Store"}
          THEN [g5 EXCEPT !.module_outputs = Append(@, e.args[2])]
     ELSE IF e.op = "Slice" THEN add_edge(g5, e.args[1], e.key)
     ELSE AddOperandEdges(g5, e.args, 1, e.key)

RECURSIVE VisitBody(_, _, _)
VisitBody(g, m, i) ==
  IF i > Len(m) THEN g ELSE Then(g, VisitBody(VisitExpr(g, m[i]), m, i + 1))

\* ---------------------------------------------------- barrier-level analysis
\* The dfs of gather_barrier_level: the leaf paths from current, in the order
\* of the edge list; a path of one node is not recorded.
RECURSIVE BarrierPaths(_, _, _)
RECURSIVE BarrierPathsFrom(_, _, _, _)
BarrierPaths(adj, current, path) ==
  LET p == Append(path, current)
      has_neighbors == \E i \in DOMAIN adj : adj[i].mom = current
  IN IF has_neighbors THEN BarrierPathsFrom(adj, current, p, 1)
     ELSE IF Len(p) > 1 THEN <<p>> ELSE <<>>

BarrierPathsFrom(adj, current, p, i) ==
  IF i > Len(adj) THEN <<>>
  ELSE (IF adj[i].mom = current THEN BarrierPaths(adj, adj[i].child, p) ELSE <<>>)
       \o BarrierPathsFrom(adj, current, p, i + 1)

\* The operands of the expression at key that gather_barrier_level looks at.
SavedOperands(g, m, key) ==
  IF key \notin g.expr_hashmap THEN <<>>
  ELSE LET e == ExprOf(m, key)
       IN IF e.op \in {"FIFOPush", "Bind", "AsyncCall"} THEN <<>>
          ELSE IF e.op = "Slice" THEN <<e.args[1]>>
          ELSE e.args

RECURSIVE PushOperands(_, _, _, _)
PushOperands(vec, ops, i, path) ==
  IF i > Len(ops) THEN vec
  ELSE IF ~Contains(path, ops[i]) /\ ~Contains(vec, ops[i])
       THEN PushOperands(Append(vec, ops[i]), ops, i + 1, path)
       ELSE PushOperands(vec, ops, i + 1, path)

RECURSIVE ScanPath(_, _, _, _, _)
ScanPath(vec, g, m, path, i) ==
  IF i > Len(path) THEN vec
  ELSE ScanPath(PushOperands(vec, SavedOperands(g, m, path[i]), 1, path), g, m, path, i + 1)

\* ScanPaths that scans each path from its first node, the barrier value
\* itself, on.
RECURSIVE ScanPathsFromBarrier(_, _, _, _, _)
ScanPathsFromBarrier(vec, g, m, paths, i) ==
  IF i > Len(paths) THEN vec
  ELSE Then(vec, ScanPathsFromBarrier(ScanPath(vec, g, m, paths[i], 1), g, m, paths, i + 1))

RECURSIVE ScanPaths(_, _, _, _, _)
ScanPaths(vec, g, m, paths, i) ==
  IF i > Len(paths) THEN vec
  ELSE Then(vec, ScanPaths(ScanPath(vec, g, m, paths[i], 2), g, m, paths, i + 1))

\* A HashMap<usize, V> is a function on its key set.
MapInsert(f, k, v) == [x \in (DOMAIN f) \cup {k} |-> IF x = k THEN v ELSE f[x]]

\* One iteration of the loop over barrier_list.
BarrierLevelOf(g, m, buffer_node) ==
  LET bm == g.submodule_barrier_map
      all_do_not_contain == \A k \in DOMAIN bm : ~Contains(bm[k], buffer_node)
  IN IF all_do_not_contain
     THEN [g EXCEPT !.submodule_barrier_map =
             MapInsert(bm, buffer_node,
               ScanPaths(<<buffer_node>>, g, m,
                         BarrierPaths(g.adjacency, buffer_node, <<>>), 1))]
     ELSE g

RECURSIVE GatherBarrierLevelFrom(_, _, _)
GatherBarrierLevelFrom(g, m, i) ==
  IF i > Len(g.barrier_list) THEN g
  ELSE GatherBarrierLevelFrom(BarrierLevelOf(g, m, g.barrier_list[i]), m, i + 1)

gather_barrier_level(g, m) == GatherBarrierLevelFrom(g, m, 1)

\* ------------------------------------------------------ submodule construction
None == 0

NewSubModule(ports) ==
  [buffered_barriers |-> <<>>, buffered_ports |-> ports, buffered_expr |-> {}]

\* The iteration orders of submodule_barrier_map that find_map can tell
\* apart: all of them when some node is in two vectors, one otherwise.
IterOrders(bm) ==
  IF \E k1, k2 \in DOMAIN bm : k1 # k2 /\ Range(bm[k1]) \cap Range(bm[k2]) # {}
  THEN Perms(DOMAIN bm)
  ELSE {SetToSortedSeq(DOMAIN bm)}

\* submodule_barrier_map.iter().find_map(..): the first key, in the map's
\* iteration order, whose vector contains v.
key_containing_v(bm, iter, v) ==
  IF \E i \in DOMAIN iter : Contains(bm[iter[i]], v)
  THEN iter[CHOOSE i \in DOMAIN iter :
              /\ Contains(bm[iter[i]], v)
              /\ \A j \in 1..(i - 1) : ~Contains(bm[iter[j]], v)]
  ELSE None

\* The stage that submodule_order gives for level lvl.
StageAt(g, lvl) == g.submodule_map[g.submodule_order[lvl]]

HasStageAt(g, lvl) ==
  /\ lvl \in DOMAIN g.submodule_order
  /\ g.submodule_order[lvl] \in DOMAIN g.submodule_map

\* A node found in a barrier stage's vector while the current stage has no
\* buffered_barriers: the current stage is closed and the barrier stage opened.
OpenStage(g, lvl, submodule_key) ==
  LET vec == g.submodule_barrier_map[submodule_key]
      order == MapInsert(g.submodule_order, lvl + 1, submodule_key)
      closed == [g.submodule_map EXCEPT ![order[lvl]].buffered_barriers = vec]
  IN [g EXCEPT !.submodule_order = order,
               !.submodule_map = MapInsert(closed, submodule_key, NewSubModule(vec))]

\* The level the children of current are walked at, when current is in the
\* vector of a barrier stage and the current stage is closed already.
LevelAfter(stage, lvl, current) ==
  IF Contains(stage.buffered_ports, current)
  THEN (IF lvl = 0 THEN lvl ELSE lvl - 1)
  ELSE IF Contains(stage.buffered_barriers, current) THEN lvl + 1
  ELSE lvl

\* dfs of gather_submodules, from its entry to the loop over the edges:
\* the graph after it, the level for the children, and whether an unwrap
\* of a missing level or node panicked.
DfsEnter(g, w, current) ==
  LET lvl == w.current_level
      kc == key_containing_v(g.submodule_barrier_map, w.iter, current)
      opens == kc # None /\ HasStageAt(g, lvl) /\ StageAt(g, lvl).buffered_barriers = <<>>
      g1 == IF opens THEN OpenStage(g, lvl, kc) ELSE g
      new_level == IF kc = None THEN lvl
                   ELSE IF opens THEN lvl + 1
                   ELSE IF HasStageAt(g, lvl) THEN LevelAfter(StageAt(g, lvl), lvl, current)
                   ELSE lvl
      panic == ~HasStageAt(g, lvl) \/ current \notin g.expr_hashmap
      fresh == current \notin w.used_nodes
      g2 == IF ~panic /\ fresh
            THEN [g1 EXCEPT !.submodule_map[g1.submodule_order[lvl]].buffered_expr = @ \cup {current}]
            ELSE g1
  IN [g |-> g2, new_level |-> new_level, panic |-> panic, fresh |-> fresh]

\* The index of the next edge of the edge list, from i on, that leaves node.
NextEdge(adj, node, i) ==
  IF \E j \in i..Len(adj) : adj[j].mom = node
  THEN CHOOSE j \in i..Len(adj) : adj[j].mom = node /\ \A k \in i..(j - 1) : adj[k].mom # node
  ELSE None

\* The end of a dfs call: a module output labels the current stage.
DfsExit(g, lvl, current) ==
  IF Contains(g.module_outputs, current) /\ HasStageAt(g, lvl)
     /\ StageAt(g, lvl).buffered_barriers = <<>>
  THEN [g EXCEPT !.submodule_map[g.submodule_order[lvl]].buffered_barriers = g.module_outputs]
  ELSE g

\* The loop over module_ports: the first stage is created when no stage exists.
SeedPrologue(g, module_port) ==
  IF DOMAIN g.submodule_map = {}
  THEN [g EXCEPT !.submodule_map = MapInsert(@, module_port, NewSubModule(g.module_ports)),
                 !.submodule_order = MapInsert(@, 0, module_port)]
  ELSE g

\* From the state after a dfs entry (or after a return) up to the next dfs
\* call: s is [g, w]; w.pending is the node of the next call, None at the end
\* of gather_submodules.
RECURSIVE Advance(_)
Advance(s) ==
  LET g == s.g
      w == s.w
  IN IF w.stack = <<>>
     THEN IF w.seed_i < Len(g.module_ports)
          THEN [g |-> SeedPrologue(g, g.module_ports[w.seed_i + 1]),
                w |-> [w EXCEPT !.seed_i = @ + 1, !.current_level = 0,
                                !.pending = g.module_ports[w.seed_i + 1]]]
          ELSE [g |-> g, w |-> [w EXCEPT !.pending = None]]
     ELSE LET top == w.stack[Len(w.stack)]
              j == IF top.fresh THEN NextEdge(g.adjacency, top.node, top.ei) ELSE None
          IN IF j # None
             THEN [g |-> g,
                   w |-> [w EXCEPT !.stack[Len(w.stack)].ei = j + 1,
                                   !.current_level = top.new_level,
                                   !.pending = g.adjacency[j].child]]
             ELSE Advance([g |-> DfsExit(g, w.current_level, top.node),
                           w |-> [w EXCEPT !.stack = SubSeq(@, 1, Len(@) - 1),
                                           !.used_nodes = @ \cup {top.node}]])

NewWalk(iter) ==
  [iter |-> iter, current_level |-> 0, used_nodes |-> {}, stack |-> <<>>,
   seed_i |-> 0, pending |-> None]

\* ------------------------------------------------------------------ rewrite
\* The builder: a module of the IR is the sequence of its expressions in
\* program order; ir[0] is the original module, ir[k] the module created for
\* order k.  log records the builder calls of cut_modules in call order.
EmptyMap == [x \in {} |-> None]

NewCut(m) ==
  [ir |-> [x \in {0} |-> m], erased |-> {}, next_key |-> FirstKey + Len(m), cur |-> 0,
   new_submodule_caller |-> EmptyMap, nodes_waiting_for_asyncall |-> EmptyMap,
   oi |-> 1, ports_remapping_map |-> EmptyMap, node_remapping_map |-> EmptyMap,
   nodes_to_remove |-> <<>>, bind_init |-> None, bind_node_str_map |-> EmptyMap,
   log |-> <<>>, panic |-> FALSE]

Log(c, ev, x, y) ==
  [c EXCEPT !.log = Append(@, [ev |-> ev, mod |-> c.cur, x |-> x, y |-> y])]

\* create_<op>(args): a fresh expression at the end of the current module;
\* its key is the value of next_key before the call.
Emit(c, op, args) ==
  [c EXCEPT !.ir[c.cur] = Append(@, [key |-> c.next_key, op |-> op, args |-> args]),
            !.next_key = @ + 1]

set_current_module(c, mod) == Log([c EXCEPT !.cur = mod], "set_current_module", mod, None)

\* get_init_bind(callee): a Bind on callee in the current module.
get_init_bind(c, callee) == Log(Emit(c, "Bind", <<callee>>), "get_init_bind", callee, c.next_key)

\* bind_arg(bind, port, value): the push of value to the FIFO port.
bind_arg(c, bind, port, value) ==
  Log(Emit(c, "FIFOPush", <<port, value>>), "bind_arg", bind, port)

create_async_call(c, bind) ==
  Log(Emit(c, "AsyncCall", <<bind>>), "async_call", bind, c.next_key)

RemoveKey(body, k) ==
  LET keep == {i \in DOMAIN body : body[i].key # k}
      idx == SetToSortedSeq(keep)
  IN [i \in 1..Len(idx) |-> body[idx[i]]]

InIR(c, k) == \E mod \in DOMAIN c.ir : IsExprKey(c.ir[mod], k)

\* as_mut::<Expr>(key).unwrap().erase_from_parent()
erase_from_parent(c, k) ==
  IF ~InIR(c, k) THEN [c EXCEPT !.panic = TRUE]
  ELSE Log([c EXCEPT !.ir = [mod \in DOMAIN c.ir |-> RemoveKey(c.ir[mod], k)],
                     !.erased = @ \cup {k}], "erase", k, None)

RECURSIVE EraseAll(_, _, _)
EraseAll(c, keys, i) ==
  IF i > Len(keys) \/ c.panic THEN c
  ELSE EraseAll(erase_from_parent(c, keys[i]), keys, i + 1)

\* sub_module_order sorted by order.
Orders(g) == SetToSortedSeq(DOMAIN g.submodule_order)

IsTerminal(g, order) == order = Cardinality(DOMAIN g.submodule_order) - 1

\* create_module(name_order, ports): the module's key, then one FIFO per
\* port, named buffered_<port_id>.
create_module(c, order, ports) ==
  LET fifos == [p \in Range(ports) |->
                  c.next_key + (CHOOSE i \in DOMAIN ports : ports[i] = p /\ \A j \in 1..(i - 1) : ports[j] # p)]
  IN Log([c EXCEPT !.ir = MapInsert(@, order, <<>>),
                   !.next_key = @ + 1 + Len(ports),
                   !.new_submodule_caller =
                       MapInsert(@, order, [key |-> c.next_key, fifos |-> fifos])],
         "create_module", order, c.next_key)

\* FifoValidGen without the combining branch: the handle kept is the probe
\* of the last port.
RECURSIVE FifoValidGenLastOnly(_, _, _, _, _)
FifoValidGenLastOnly(c, fifos, ports, i, last) ==
  IF i > Len(ports) THEN [c |-> c, last |-> last]
  ELSE FifoValidGenLastOnly(Emit(c, "FIFOValid", <<fifos[ports[i]]>>), fifos, ports, i + 1, c.next_key)

\* The loop that combines the fifo_valid probes of the ports.
RECURSIVE FifoValidGen(_, _, _, _, _)
FifoValidGen(c, fifos, ports, i, last) ==
  IF i > Len(ports) THEN [c |-> c, last |-> last]
  ELSE LET c1 == Emit(c, "FIFOValid", <<fifos[ports[i]]>>)
           valid == c.next_key
       IN IF last # None
          THEN FifoValidGen(Emit(c1, "BitwiseAnd", <<last, valid>>), fifos, ports, i + 1, c1.next_key)
          ELSE FifoValidGen(c1, fifos, ports, i + 1, valid)

\* Lines 698-754: the port types, the new module and its valid/wait prologue.
CreateStageModule(c, order, submodule) ==
  IF \E i \in DOMAIN submodule.buffered_ports :
        submodule.buffered_ports[i] \notin DOMAIN c.nodes_waiting_for_asyncall
  THEN [c EXCEPT !.panic = TRUE]
  ELSE LET c1 == create_module(c, order, submodule.buffered_ports)
           fifos == c1.new_submodule_caller[order].fifos
           c2 == set_current_module([c1 EXCEPT !.ports_remapping_map = fifos], order)
           r == FifoValidGen(c2, fifos, submodule.buffered_ports, 1, None)
       IN IF r.last # None THEN Emit(r.c, "WaitUntil", <<r.last>>) ELSE r.c

RECURSIVE BindPorts(_, _, _, _, _)
BindPorts(c, bind, fifos, ports, i) ==
  IF i > Len(ports) THEN c
  ELSE BindPorts(bind_arg(c, bind, fifos[ports[i]], c.nodes_waiting_for_asyncall[ports[i]]),
                 bind, fifos, ports, i + 1)

\* Stitch with the branch for order > 1 left out: every new module is bound
\* and called from the original module.
StitchFromOriginal(c, order, submodule) ==
  LET c1 == set_current_module(c, 0)
      c2 == get_init_bind(c1, c.new_submodule_caller[order].key)
      bind_init == c1.next_key
      c3 == BindPorts(c2, bind_init, c.new_submodule_caller[order].fifos,
                      submodule.buffered_ports, 1)
  IN [create_async_call(c3, bind_init) EXCEPT !.nodes_waiting_for_asyncall = EmptyMap]

\* Lines 756-789: the init-bind of the new module, bound and called from the
\* module of the previous order (the original module for order 1).
Stitch(c, order, submodule) ==
  IF order > 1 /\ (order - 1) \notin DOMAIN c.new_submodule_caller
  THEN [c EXCEPT !.panic = TRUE]
  ELSE LET c1 == set_current_module(c, IF order > 1 THEN order - 1 ELSE 0)
           c2 == get_init_bind(c1, c.new_submodule_caller[order].key)
           bind_init == c1.next_key
           c3 == BindPorts(c2, bind_init, c.new_submodule_caller[order].fifos,
                           submodule.buffered_ports, 1)
       IN [create_async_call(c3, bind_init) EXCEPT !.nodes_waiting_for_asyncall = EmptyMap]

\* Lines 792-804: one FIFOPop per entry of ports_remapping_map, in the map's
\* iteration order iter.
RECURSIVE FifoPopGen(_, _, _)
FifoPopGen(c, iter, i) ==
  IF i > Len(iter) THEN c
  ELSE FifoPopGen([Emit(c, "FIFOPop", <<c.ports_remapping_map[iter[i]]>>)
                     EXCEPT !.node_remapping_map = MapInsert(@, iter[i], c.next_key)],
                  iter, i + 1)

PopPorts(c, order, iter) ==
  FifoPopGen([set_current_module(c, order) EXCEPT
                 !.node_remapping_map = EmptyMap, !.bind_init = None,
                 !.bind_node_str_map = EmptyMap, !.nodes_to_remove = <<>>],
             iter, 1)

\* find_module_with_callers: the callee that the Bind expression e targets.
CalleeOfBind(e) == e.args[1]

\* Lines 811-844, the FIFOPush entries of caller_expr in the iteration order
\* iter: bind_node_str_map maps the pushed value's key to the port.
RECURSIVE GatherPushes(_, _, _, _)
GatherPushes(c, m, iter, i) ==
  IF i > Len(iter) THEN c
  ELSE LET e == ExprOf(m, iter[i])
       IN GatherPushes([c EXCEPT !.bind_node_str_map = MapInsert(@, e.args[2], e.args[1])],
                       m, iter, i + 1)

\* Lines 811-844, the Bind entries of caller_expr in the iteration order
\* iter: each takes the init-bind of its callee; the last one stays.
RECURSIVE GatherBinds(_, _, _, _)
GatherBinds(c, m, iter, i) ==
  IF i > Len(iter) THEN c
  ELSE LET c1 == get_init_bind(c, CalleeOfBind(ExprOf(m, iter[i])))
       IN GatherBinds([c1 EXCEPT !.bind_init = c.next_key], m, iter, i + 1)

CallersOfOp(g, m, op) == {k \in g.caller_expr : ExprOf(m, k).op = op}

GatherCallers(c, g, m, push_iter, bind_iter) ==
  GatherBinds(GatherPushes(c, m, push_iter, 1), m, bind_iter, 1)

\* The iteration orders of caller_expr that the result can tell apart: the
\* order of the pushes matters when two of them carry the same value, the
\* order of the binds always.
PushIterOrders(g, m) ==
  LET P == CallersOfOp(g, m, "FIFOPush")
  IN IF \E k1, k2 \in P : k1 # k2 /\ ExprOf(m, k1).args[2] = ExprOf(m, k2).args[2]
     THEN Perms(P) ELSE {SetToSortedSeq(P)}

Has(f, k) == k \in DOMAIN f

\* CloneExpr with the second operand of a binary expression taken from the
\* original instead of the remap.
CloneExprSecondUnmapped(c, e) ==
  LET r == c.node_remapping_map
      done(c1) == [c1 EXCEPT !.node_remapping_map = MapInsert(@, e.key, c.next_key),
                             !.nodes_to_remove = Append(@, e.key)]
  IN IF e.op \in {"Add", "Sub", "Mul"}
     THEN IF Has(r, e.args[1]) /\ Has(r, e.args[2])
          THEN Log(done(Emit(c, e.op, <<r[e.args[1]], e.args[2]>>)), "clone", e.key, c.next_key)
          ELSE [c EXCEPT !.panic = TRUE]
     ELSE IF e.op = "BitCast"
     THEN IF Has(r, e.args[1])
          THEN Log(done(Emit(c, e.op, <<r[e.args[1]]>>)), "clone", e.key, c.next_key)
          ELSE [c EXCEPT !.panic = TRUE]
     ELSE IF e.op = "Slice"
     THEN IF Has(r, e.args[1])
          THEN Log(done(Emit(c, e.op, <<r[e.args[1]], e.args[2], e.args[3]>>)), "clone", e.key, c.next_key)
          ELSE [c EXCEPT !.panic = TRUE]
     ELSE Log(c, "unsupported", e.key, None)

\* Lines 865-941: the clone of one body expression; an unwrap of a missing
\* remap entry panics, an unsupported opcode is skipped.
CloneExpr(c, e) ==
  LET r == c.node_remapping_map
      done(c1) == [c1 EXCEPT !.node_remapping_map = MapInsert(@, e.key, c.next_key),
                             !.nodes_to_remove = Append(@, e.key)]
  IN IF e.op \in {"Add", "Sub", "Mul"}
     THEN IF Has(r, e.args[1]) /\ Has(r, e.args[2])
          THEN Log(done(Emit(c, e.op, <<r[e.args[1]], r[e.args[2]]>>)), "clone", e.key, c.next_key)
          ELSE [c EXCEPT !.panic = TRUE]
     ELSE IF e.op = "BitCast"
     THEN IF Has(r, e.args[1])
          THEN Log(done(Emit(c, e.op, <<r[e.args[1]]>>)), "clone", e.key, c.next_key)
          ELSE [c EXCEPT !.panic = TRUE]
     ELSE IF e.op = "Slice"
     THEN IF Has(r, e.args[1])
          THEN Log(done(Emit(c, e.op, <<r[e.args[1]], e.args[2], e.args[3]>>)), "clone", e.key, c.next_key)
          ELSE [c EXCEPT !.panic = TRUE]
     ELSE Log(c, "unsupported", e.key, None)

\* Lines 850-946: the body in ascending key order.
RECURSIVE CloneFrom(_, _, _, _)
CloneFrom(c, m, keys, i) ==
  IF i > Len(keys) \/ c.panic THEN c
  ELSE IF ~InIR(c, keys[i]) THEN [c EXCEPT !.panic = TRUE]
  ELSE CloneFrom(CloneExpr(c, ExprOf(m, keys[i])), m, keys, i + 1)

CloneBody(c, m, submodule) == CloneFrom(c, m, SetToSortedSeq(submodule.buffered_expr), 1)

\* Lines 948-951: the values handed to the next stage.
RECURSIVE HandOffFrom(_, _, _)
HandOffFrom(c, barriers, i) ==
  IF i > Len(barriers) \/ c.panic THEN c
  ELSE IF ~Has(c.node_remapping_map, barriers[i]) THEN [c EXCEPT !.panic = TRUE]
  ELSE HandOffFrom([c EXCEPT !.nodes_waiting_for_asyncall =
                                MapInsert(@, barriers[i], c.node_remapping_map[barriers[i]])],
                   barriers, i + 1)

HandOff(c, submodule) == HandOffFrom(c, submodule.buffered_barriers, 1)

\* Lines 991-994: stage 0 hands the original nodes over.
RECURSIVE HandOffOriginalFrom(_, _, _)
HandOffOriginalFrom(c, submodule, i) ==
  IF i > Len(submodule.buffered_barriers) \/ c.panic THEN c
  ELSE IF submodule.buffered_barriers[i] \notin submodule.buffered_expr
       THEN [c EXCEPT !.panic = TRUE]
  ELSE HandOffOriginalFrom([c EXCEPT !.nodes_waiting_for_asyncall =
                                        MapInsert(@, submodule.buffered_barriers[i],
                                                  submodule.buffered_barriers[i])],
                           submodule, i + 1)

HandOffOriginal(c, submodule) == HandOffOriginalFrom(c, submodule, 1)

\* Lines 972-984: the original pushes bound again, in the iteration order
\* iter of bind_node_str_map, then the call.
RECURSIVE ReBind(_, _, _)
ReBind(c, iter, i) ==
  IF c.panic THEN c
  ELSE IF i > Len(iter) THEN create_async_call(c, c.bind_init)
  ELSE IF ~Has(c.node_remapping_map, iter[i]) THEN [c EXCEPT !.panic = TRUE]
  ELSE ReBind(bind_arg(c, c.bind_init, c.bind_node_str_map[iter[i]],
                       c.node_remapping_map[iter[i]]), iter, i + 1)

\* EraseOriginals without the reversal of nodes_to_remove: the queued body
\* expressions are erased in the order they were cloned.
EraseOriginalsUnreversed(c, g) ==
  EraseAll(EraseAll(c, Reverse(SetToSortedSeq(g.caller_expr)), 1),
           c.nodes_to_remove, 1)

\* Lines 953-986: the terminal stage erases the original caller expressions
\* and the cloned originals, then emits the original call again.
EraseOriginals(c, g) ==
  EraseAll(EraseAll(c, Reverse(SetToSortedSeq(g.caller_expr)), 1),
           Reverse(c.nodes_to_remove), 1)

TerminalStage(c, g, iter) ==
  LET c1 == EraseOriginals(c, g)
  IN IF c1.panic \/ c1.bind_init = None THEN c1 ELSE ReBind(c1, iter, 1)

\* ----------------------------------------------------------------- actions
\* The module under analysis: a body over at most MaxSeeds seeds and MaxBody
\* compute expressions, followed by one of its tails.
Init ==
  /\ name \in ModuleNames
  /\ \E nseed \in 0..MaxSeeds, len \in 0..Min(MaxBody, MaxNodes) :
       \E body \in Bodies(nseed, len, MaxNodes) :
         \E t \in Tails(nseed, body, MaxNodes) :
           module = Assemble(nseed, body, t[1], t[2], t[3], t[4])
  /\ pc = "start"
  /\ graph = NewGraph
  /\ walk = NewWalk(<<>>)
  /\ cut = NewCut(module)

\* GatherModulesToCut::enter, lines 115-119: the module is flagged when the
\* walk of its body has seen a Barrier.
Discover ==
  /\ pc = "start"
  /\ pc' = IF HasBarrier(name, module) THEN "graph" ELSE "unflagged"
  /\ UNCHANGED <<name, module, graph, walk, cut>>

\* enter, lines 120-129: the GraphVisitor walks the flagged module.
BuildGraph ==
  /\ pc = "graph"
  /\ graph' = VisitBody(NewGraph, module, 1)
  /\ pc' = "barrier_level"
  /\ UNCHANGED <<name, module, walk, cut>>

\* enter, lines 130-132.
GatherBarrierLevel ==
  /\ pc = "barrier_level"
  /\ graph' = gather_barrier_level(graph, module)
  /\ pc' = "submodules"
  /\ UNCHANGED <<name, module, walk, cut>>

\* gather_submodules up to its first dfs call.
GatherSubmodulesBegin ==
  /\ pc = "submodules"
  /\ \E iter \in IterOrders(graph.submodule_barrier_map) :
       LET s == Advance([g |-> graph, w |-> NewWalk(iter)])
       IN /\ graph' = s.g
          /\ walk' = s.w
          /\ pc' = IF s.w.pending = None THEN "cut" ELSE "dfs"
  /\ UNCHANGED <<name, module, cut>>

\* One call of dfs, and the returns that follow it up to the next call.
DfsCall ==
  /\ pc = "dfs"
  /\ LET r == DfsEnter(graph, walk, walk.pending)
         frame == [node |-> walk.pending, new_level |-> r.new_level, ei |-> 1, fresh |-> r.fresh]
         s == Advance([g |-> r.g, w |-> [walk EXCEPT !.stack = Append(@, frame)]])
     IN IF r.panic
        THEN /\ pc' = "panic"
             /\ UNCHANGED <<graph, walk>>
        ELSE /\ graph' = s.g
             /\ walk' = s.w
             /\ pc' = IF s.w.pending = None THEN "cut" ELSE "dfs"
  /\ UNCHANGED <<name, module, cut>>

\* EraseBarriers without the erasure: cut_modules goes on to the stages with
\* the barrier expressions still in the module.
EraseBarriersSkipped ==
  /\ pc = "cut"
  /\ pc' = "stage"
  /\ UNCHANGED <<name, module, graph, walk, cut>>

\* cut_modules, lines 683-687.
EraseBarriers ==
  /\ pc = "cut"
  /\ cut' = EraseAll(cut, SetToSortedSeq(graph.barrier_expr), 1)
  /\ pc' = IF cut'.panic THEN "panic" ELSE "stage"
  /\ UNCHANGED <<name, module, graph, walk>>

CurOrder == Orders(graph)[cut.oi]

CurStage == graph.submodule_map[graph.submodule_order[CurOrder]]

NextStage(c) == [c EXCEPT !.oi = @ + 1]

\* The end of the loop over the orders.
Finish ==
  /\ pc = "stage"
  /\ cut.oi > Len(Orders(graph))
  /\ pc' = "done"
  /\ UNCHANGED <<name, module, graph, walk, cut>>

\* Order 0, lines 988-995.
StageZero ==
  /\ pc = "stage"
  /\ cut.oi <= Len(Orders(graph))
  /\ CurOrder = 0
  /\ cut' = NextStage(HandOffOriginal(cut, CurStage))
  /\ pc' = IF cut'.panic THEN "panic" ELSE "stage"
  /\ UNCHANGED <<name, module, graph, walk>>

\* Order > 0, lines 698-754.
NewStageModule ==
  /\ pc = "stage"
  /\ cut.oi <= Len(Orders(graph))
  /\ CurOrder > 0
  /\ cut' = CreateStageModule(cut, CurOrder, CurStage)
  /\ pc' = IF cut'.panic THEN "panic" ELSE "stitch"
  /\ UNCHANGED <<name, module, graph, walk>>

\* StitchCaller without the stitching: the pass goes on to the pops and the
\* clone of the stage with no init-bind, bind_arg or async_call emitted.
StitchCallerSkipped ==
  /\ pc = "stitch"
  /\ pc' = "pops"
  /\ UNCHANGED <<name, module, graph, walk, cut>>

\* Lines 756-789.
StitchCaller ==
  /\ pc = "stitch"
  /\ cut' = Stitch(cut, CurOrder, CurStage)
  /\ pc' = IF cut'.panic THEN "panic" ELSE "pops"
  /\ UNCHANGED <<name, module, graph, walk>>

\* Lines 792-846.
PopAndGather ==
  /\ pc = "pops"
  /\ \E iter \in Perms(DOMAIN cut.ports_remapping_map) :
       IF IsTerminal(graph, CurOrder)
       THEN \E push_iter \in PushIterOrders(graph, module),
               bind_iter \in Perms(CallersOfOp(graph, module, "Bind")) :
              cut' = GatherCallers(PopPorts(cut, CurOrder, iter), graph, module, push_iter, bind_iter)
       ELSE cut' = PopPorts(cut, CurOrder, iter)
  /\ pc' = "clone"
  /\ UNCHANGED <<name, module, graph, walk>>

\* Lines 850-946.
CloneStageBody ==
  /\ pc = "clone"
  /\ cut' = CloneBody(cut, module, CurStage)
  /\ pc' = IF cut'.panic THEN "panic" ELSE "handoff"
  /\ UNCHANGED <<name, module, graph, walk>>

\* Lines 948-952.
HandOffStage ==
  /\ pc = "handoff"
  /\ LET c == HandOff(cut, CurStage)
     IN /\ cut' = IF IsTerminal(graph, CurOrder) \/ c.panic THEN c ELSE NextStage(c)
        /\ pc' = IF c.panic THEN "panic"
                 ELSE IF IsTerminal(graph, CurOrder) THEN "terminal" ELSE "stage"
  /\ UNCHANGED <<name, module, graph, walk>>

\* Lines 953-986.
Terminal ==
  /\ pc = "terminal"
  /\ \E iter \in Perms(DOMAIN cut.bind_node_str_map) :
       LET c == TerminalStage(cut, graph, iter)
       IN /\ cut' = IF c.panic THEN c ELSE NextStage(c)
          /\ pc' = IF c.panic THEN "panic" ELSE "stage"
  /\ UNCHANGED <<name, module, graph, walk>>

\* The pass run again on the IR that a completed run has left: enter flags
\* the modules with a barrier; with none flagged, the container map is empty
\* and cut_modules has nothing to iterate over.  The analysis of a module
\* flagged again is not followed further.
SecondRun ==
  /\ pc \in {"done", "unflagged"}
  /\ pc' = IF Flagged(name, cut.ir) = {} THEN "idle" ELSE "flagged_again"
  /\ UNCHANGED <<name, module, graph, walk, cut>>

Next ==
  \/ Discover
  \/ BuildGraph
  \/ GatherBarrierLevel
  \/ GatherSubmodulesBegin
  \/ DfsCall
  \/ EraseBarriers
  \/ Finish
  \/ StageZero
  \/ NewStageModule
  \/ StitchCaller
  \/ PopAndGather
  \/ CloneStageBody
  \/ HandOffStage
  \/ Terminal
  \/ SecondRun

Spec == Init /\ [][Next]_vars

\* The wide modules: one seed and one node more than Init allows, so that a
\* stage can have three ports.
InitWide ==
  /\ name \in ModuleNames
  /\ \E len \in 0..Min(MaxBody, MaxNodes) :
       \E body \in Bodies(MaxSeeds + 1, len, MaxNodes + 1) :
         \E t \in Tails(MaxSeeds + 1, body, MaxNodes + 1) :
           module = Assemble(MaxSeeds + 1, body, t[1], t[2], t[3], t[4])
  /\ pc = "start"
  /\ graph = NewGraph
  /\ walk = NewWalk(<<>>)
  /\ cut = NewCut(module)

SpecWide == InitWide /\ [][Next]_vars

\* The test harness modules: the modules of Init with a body of additions
\* and at most one barrier, under the names "driver" and "testbench".
InitNamed ==
  /\ name \in HarnessNames
  /\ \E nseed \in 0..MaxSeeds, len \in 0..Min(MaxBody, MaxNodes) :
       \E body \in BodiesOver({"Add"}, nseed, len, MaxNodes) :
         \E t \in TailsWith(nseed, body, MaxNodes, 0..1, TRUE, 0..MaxPushes, 0..2) :
           module = Assemble(nseed, body, t[1], t[2], t[3], t[4])
  /\ pc = "start"
  /\ graph = NewGraph
  /\ walk = NewWalk(<<>>)
  /\ cut = NewCut(module)

SpecNamed == InitNamed /\ [][Next]_vars

\* The modules with a push ahead of a compute expression: one seed, a body
\* of additions, one barrier, one push, and a budget of one node more than
\* Init allows.
InitInterleaved ==
  /\ name \in ModuleNames
  /\ \E len \in 0..Min(MaxBody, MaxNodes) :
       \E body \in BodiesOver({"Add"}, 1, len, MaxNodes + 1) :
         \E t \in TailsWith(1, body, MaxNodes + 1, {1}, TRUE, {1}, 0..2) :
           module \in EarlyPushes(Assemble(1, body, t[1], t[2], t[3], t[4]))
  /\ pc = "start"
  /\ graph = NewGraph
  /\ walk = NewWalk(<<>>)
  /\ cut = NewCut(module)

SpecInterleaved == InitInterleaved /\ [][Next]_vars

\* The modules with an output ahead of the cut: MaxSeeds seeds, two
\* additions, one barrier, and a budget of two nodes more than Init allows,
\* so that the first seed can be stored or pushed while the values behind
\* the second are pushed too.
InitLabelled ==
  /\ name \in ModuleNames
  /\ \E body \in BodiesOver({"Add"}, MaxSeeds, 2, MaxNodes + 2) :
       \E t \in TailsWith(MaxSeeds, body, MaxNodes + 2, {1}, TRUE, 0..MaxPushes, 0..2) :
         module = Assemble(MaxSeeds, body, t[1], t[2], t[3], t[4])
  /\ pc = "start"
  /\ graph = NewGraph
  /\ walk = NewWalk(<<>>)
  /\ cut = NewCut(module)

SpecLabelled == InitLabelled /\ [][Next]_vars

\* The modules that the pass cuts and clones: the modules of Init with one
\* seed at least, one barrier at least, a body of the opcodes that the clone
\* loop supports, no Store and at most one callee.
Cloned == {"Add", "Slice", "BitCast"}

InitFlagged ==
  /\ name \in ModuleNames
  /\ \E nseed \in 1..MaxSeeds, len \in 0..Min(MaxBody, MaxNodes) :
       \E body \in BodiesOver(Cloned, nseed, len, MaxNodes) :
         \E t \in TailsWith(nseed, body, MaxNodes, 1..MaxBarriers, FALSE, 0..MaxPushes, 0..1) :
           module = Assemble(nseed, body, t[1], t[2], t[3], t[4])
  /\ pc = "start"
  /\ graph = NewGraph
  /\ walk = NewWalk(<<>>)
  /\ cut = NewCut(module)

SpecFlagged == InitFlagged /\ [][Next]_vars

\* ------------------------------------------------------------------ claims
\* gather_submodules has returned: the pass is in cut_modules or past it.
Gathered == pc \in {"cut", "stage", "stitch", "pops", "clone", "handoff", "terminal", "done"}

Levels == DOMAIN graph.submodule_order

\* C1: after gather_submodules, for every pair of consecutive levels i and
\* i+1 of the order map, the buffered_barriers of the stage at level i equal
\* the buffered_ports of the stage at level i+1.
C1_BarriersOutArePortsIn ==
  Gathered =>
    \A i \in Levels :
      (i + 1) \in Levels =>
        StageAt(graph, i).buffered_barriers = StageAt(graph, i + 1).buffered_ports

\* The levels whose stage holds node n in its body.
LevelsOf(n) == {i \in Levels : HasStageAt(graph, i) /\ n \in StageAt(graph, i).buffered_expr}

\* The pairs <<v, e>> of a value v produced by an expression of the module
\* and an expression e that consumes it, as the edge list records them.
Consumes == {<<graph.adjacency[k].mom, graph.adjacency[k].child>> : k \in DOMAIN graph.adjacency}
              \cap (graph.expr_hashmap \X graph.expr_hashmap)

\* v crosses a cut on its way to a consumer at level j: the stage at level
\* j > 0 receives v through a port.
CrossesCut(v, j) == j > 0 /\ Contains(StageAt(graph, j).buffered_ports, v)

\* C2: after gather_submodules, the level of the stage that holds the
\* producer of a value is not greater than the level of the stage that holds
\* a consumer of it, and is strictly lower when the value crosses a cut.
C2_TopologicalLinearization ==
  Gathered =>
    \A p \in Consumes :
      \A i \in LevelsOf(p[1]), j \in LevelsOf(p[2]) :
        /\ i <= j
        /\ CrossesCut(p[1], j) => i < j

\* The operands of the expression at key n that an expression of the module
\* produces.
ProducedOperands(n) == {o \in Range(ExprOf(module, n).args) : IsExprKey(module, o)}

\* C3: after gather_submodules, each operand of an expression in a stage's
\* body that an expression of the module produces is in the same body or in
\* the stage's buffered_ports.
C3_OperandClosure ==
  Gathered =>
    \A k \in DOMAIN graph.submodule_map :
      \A n \in graph.submodule_map[k].buffered_expr :
        \A o \in ProducedOperands(n) :
          \/ o \in graph.submodule_map[k].buffered_expr
          \/ Contains(graph.submodule_map[k].buffered_ports, o)

\* The expressions present in the IR, in the original module or a new one.
Present == UNION {Range(cut.ir[mod]) : mod \in DOMAIN cut.ir}

\* C4: after cut_modules has finished, no expression present in the IR has
\* an operand whose key the pass erased.
C4_NoErasedOperand ==
  pc = "done" =>
    \A e \in Present : \A i \in DOMAIN e.args : e.args[i] \notin cut.erased

\* N': the number of distinct first operands of the module's barriers.
DistinctBarrierValues ==
  Cardinality({module[i].args[1] : i \in {j \in DOMAIN module : module[j].op = "Barrier"}})

\* The number of stages that gather_submodules produced.
StageCount == Cardinality(Levels)

\* The number of modules that cut_modules created.
NewModuleCount == Cardinality(DOMAIN cut.new_submodule_caller)

\* C5: gather_submodules produces N' + 1 stages for a module whose barriers
\* have N' distinct first operands, and cut_modules creates as many new
\* modules as there are stages.
C5_StageAndModuleCount ==
  /\ Gathered => StageCount = DistinctBarrierValues + 1
  /\ pc = "done" => NewModuleCount = StageCount

\* The positions of the log that hold a call ev.
Calls(ev) == {i \in DOMAIN cut.log : cut.log[i].ev = ev}

\* The init-binds taken on the module created for level k.
InitBindsOn(k) ==
  {cut.log[i].y : i \in {j \in Calls("get_init_bind") : cut.log[j].x = cut.new_submodule_caller[k].key}}

\* The module (0: the original one) that holds the stage of level k.
ModuleOfLevel(k) == k

\* C6: after cut_modules, for every pair of consecutive levels k and k+1
\* there is exactly one async_call on an init-bind of the module of level
\* k+1, emitted into the module of level k, and the bind_arg calls on that
\* init-bind name each port buffered_<key> of the stage at level k+1 exactly
\* once and no other port.
C6_OneCallPerStagePair ==
  pc = "done" =>
    \A k \in Levels :
      (k + 1) \in Levels =>
        LET next == k + 1
            binds == IF next \in DOMAIN cut.new_submodule_caller THEN InitBindsOn(next) ELSE {}
            calls == {i \in Calls("async_call") : cut.log[i].x \in binds}
            args == {i \in Calls("bind_arg") : cut.log[i].x \in binds}
            ports == StageAt(graph, next).buffered_ports
        IN /\ Cardinality(calls) = 1
           /\ \A i \in calls : cut.log[i].mod = ModuleOfLevel(k)
           /\ \A j \in DOMAIN ports :
                Cardinality({i \in args :
                   cut.log[i].y = cut.new_submodule_caller[next].fifos[ports[j]]}) = 1
           /\ Cardinality(args) = Len(ports)

\* C6, its case: the pass has finished on a module with three levels whose
\* middle stage hands two values over.
C6_Witness ==
  /\ pc = "done"
  /\ {0, 1, 2} \subseteq Levels
  /\ \E k \in Levels : k > 0 /\ Len(StageAt(graph, k).buffered_ports) = 2

\* The positions of the module body that hold an expression of opcode op.
OpsAt(body, op) == {i \in DOMAIN body : body[i].op = op}

\* The expression at key is the left fold, by bitwise-and, of the fifo_valid
\* probes of the first n ports.
RECURSIVE IsValidFold(_, _, _, _, _)
IsValidFold(body, key, fifos, ports, n) ==
  /\ IsExprKey(body, key)
  /\ LET e == ExprOf(body, key)
         IsProbe(k, p) == /\ IsExprKey(body, k)
                          /\ ExprOf(body, k).op = "FIFOValid"
                          /\ ExprOf(body, k).args = <<fifos[p]>>
     IN IF n = 1 THEN IsProbe(key, ports[1])
        ELSE /\ e.op = "BitwiseAnd"
             /\ Len(e.args) = 2
             /\ IsProbe(e.args[2], ports[n])
             /\ IsValidFold(body, e.args[1], fifos, ports, n - 1)

\* C7: in every module that cut_modules created, each port has exactly one
\* FIFOPop, and every pop comes, in program order, after the module's one
\* wait_until, whose condition is the left fold by bitwise-and of the
\* fifo_valid probes of all ports.
C7_PopsAfterOneWait ==
  pc = "done" =>
    \A k \in DOMAIN cut.new_submodule_caller :
      LET body == cut.ir[k]
          fifos == cut.new_submodule_caller[k].fifos
          ports == StageAt(graph, k).buffered_ports
          waits == OpsAt(body, "WaitUntil")
      IN /\ \A p \in DOMAIN fifos :
              Cardinality({i \in OpsAt(body, "FIFOPop") : body[i].args = <<fifos[p]>>}) = 1
         /\ Cardinality(OpsAt(body, "FIFOPop")) = Cardinality(DOMAIN fifos)
         /\ Cardinality(waits) = 1
         /\ \A w \in waits :
              /\ \A i \in OpsAt(body, "FIFOPop") : w < i
              /\ IsValidFold(body, body[w].args[1], fifos, ports, Len(ports))

\* C7, its case: the pass has finished and a module it created has three
\* ports.
C7_Witness ==
  /\ pc = "done"
  /\ \E k \in DOMAIN cut.new_submodule_caller :
       Cardinality(DOMAIN cut.new_submodule_caller[k].fifos) = 3

\* The clone calls of the log: x is the original's key, y the clone's key,
\* mod the module the clone was emitted into.
Clones == {cut.log[i] : i \in Calls("clone")}

\* Operand o of a clone in module mod is another clone of that module or a
\* FIFOPop of it.
FromSameStage(o, mod) ==
  \/ \E l \in Clones : l.mod = mod /\ l.y = o
  \/ \E i \in OpsAt(cut.ir[mod], "FIFOPop") : cut.ir[mod][i].key = o

\* C8 as stated: every operand of every clone, the start and end operands of
\* a cloned Slice included, is another clone of the same stage or a FIFOPop
\* of that stage.
C8_AllCloneOperandsRemapped ==
  \A l \in Clones :
    IsExprKey(cut.ir[l.mod], l.y) =>
      \A o \in Range(ExprOf(cut.ir[l.mod], l.y).args) : FromSameStage(o, l.mod)

\* C8 amended: the operands that the clone takes from the remap (all but the
\* start and end operands of a Slice) are clones or FIFOPops of the same
\* stage; the start and end operands of a cloned Slice are those of the
\* original; no operand of a clone is an expression of the original module.
C8_CloneOperands ==
  \A l \in Clones :
    IsExprKey(cut.ir[l.mod], l.y) =>
      LET clone == ExprOf(cut.ir[l.mod], l.y)
          orig == ExprOf(module, l.x)
          mapped == IF clone.op = "Slice" THEN {1} ELSE DOMAIN clone.args
      IN /\ clone.op = orig.op
         /\ DOMAIN clone.args = DOMAIN orig.args
         /\ \A i \in mapped : FromSameStage(clone.args[i], l.mod)
         /\ \A i \in DOMAIN clone.args \ mapped : clone.args[i] = orig.args[i]
         /\ \A i \in DOMAIN clone.args : ~IsExprKey(module, clone.args[i])

\* C8, its case: the pass has finished after it has cloned a Slice whose
\* first operand is a FIFOPop of the stage.
C8_Witness ==
  /\ pc = "done"
  /\ \E l \in Clones :
       /\ ExprOf(module, l.x).op = "Slice"
       /\ IsExprKey(cut.ir[l.mod], l.y)
       /\ FromSameStage(ExprOf(cut.ir[l.mod], l.y).args[1], l.mod)

\* The module of the terminal stage.
TerminalModule == Cardinality(Levels) - 1

\* The callees that the original module binds, and the positions of its
\* pushes.
OriginalCallees == {CalleeOfBind(module[i]) : i \in OpsAt(module, "Bind")}

OriginalPushes == OpsAt(module, "FIFOPush")

\* The positions of the log at which the terminal stage binds an argument of
\* an init-bind of one of the original callees, and those at which it calls
\* such an init-bind.
ReBinds ==
  {j \in Calls("get_init_bind") : cut.log[j].mod = TerminalModule /\ cut.log[j].x \in OriginalCallees}

ReBoundArgs == {i \in Calls("bind_arg") : \E j \in ReBinds : cut.log[i].x = cut.log[j].y}

ReCalls == {i \in Calls("async_call") : \E j \in ReBinds : cut.log[i].x = cut.log[j].y}

\* C9: the terminal stage emits the external calls of the original module
\* again: an async_call on an init-bind of each callee that the original
\* module binds, and bind_args whose port names are, as a multiset, the port
\* names of the original pushes, each before the async_call of its bind.
C9_SameExternalCalls ==
  (pc = "done" /\ Cardinality(Levels) > 1) =>
    /\ \A callee \in OriginalCallees :
         \E i \in ReCalls : \E j \in ReBinds :
           cut.log[j].x = callee /\ cut.log[i].x = cut.log[j].y
    /\ \A port \in {module[i].args[1] : i \in OriginalPushes} :
         Cardinality({i \in ReBoundArgs : cut.log[i].y = port})
           = Cardinality({i \in OriginalPushes : module[i].args[1] = port})
    /\ \A i \in ReBoundArgs : \E k \in ReCalls : cut.log[k].x = cut.log[i].x /\ i < k

\* The keys of the module's Barrier expressions.
BarrierKeys == {module[i].key : i \in OpsAt(module, "Barrier")}

\* cut_modules is past the loop that erases the barrier expressions.
BarriersErased == pc \in {"stage", "stitch", "pops", "clone", "handoff", "terminal", "done"}

\* C10: once cut_modules has erased the barrier expressions, no Barrier
\* remains in the original module or in a module that the pass created, each
\* barrier that the graph visitor recorded is erased, and at no time is a
\* barrier in a stage body or cloned.
C10_NoBarrierRemains ==
  /\ BarriersErased =>
       /\ \A e \in Present : e.op # "Barrier"
       /\ BarrierKeys \subseteq cut.erased
       /\ graph.barrier_expr = BarrierKeys
  /\ \A k \in DOMAIN graph.submodule_map :
       graph.submodule_map[k].buffered_expr \cap BarrierKeys = {}
  /\ \A l \in Clones : l.x \notin BarrierKeys

\* C10, its case: the pass has finished on a module with two barriers and
\* has created a module.
C10_Witness ==
  /\ pc = "done"
  /\ Cardinality(BarrierKeys) = 2
  /\ NewModuleCount > 0

\* The keys that the expression at key k depends on, through its operands.
RECURSIVE OperandClosure(_, _)
OperandClosure(m, k) ==
  IF ~IsExprKey(m, k) THEN {}
  ELSE LET a == Range(ExprOf(m, k).args)
       IN a \cup UNION {OperandClosure(m, x) : x \in a}

\* The first operands of the module's barriers.
BarrierValues == {module[i].args[1] : i \in OpsAt(module, "Barrier")}

\* The module places a barrier on b1 and one on b2, neither of which depends
\* on the other, and computes some c from both.
TwoIndependentBarriers(b1, b2) ==
  /\ b1 # b2
  /\ BarrierValues = {b1, b2}
  /\ b1 \notin OperandClosure(module, b2)
  /\ b2 \notin OperandClosure(module, b1)
  /\ \E i \in DOMAIN module :
       module[i].op \notin {"Barrier", "FIFOPush", "Store"}
       /\ {b1, b2} \subseteq Range(module[i].args)

\* C11: for a module with barriers on two independent values b1 and b2 and a
\* c computed from both, gather_submodules produces three stages, at levels
\* 0, 1 and 2, and the ports of the stage at level 2 are b1 and b2.
C11_TwoBarriersThreeStages ==
  Gathered =>
    \A b1, b2 \in BarrierValues :
      TwoIndependentBarriers(b1, b2) =>
        /\ Levels = {0, 1, 2}
        /\ Cardinality(DOMAIN graph.submodule_map) = 3
        /\ HasStageAt(graph, 2)
        /\ Range(StageAt(graph, 2).buffered_ports) = {b1, b2}

\* The positions of the log that hold the caller stitching of the module
\* created for level k: its init-bind, the bind_args and the async_call on it.
StitchEvents(k) ==
  {i \in DOMAIN cut.log :
     \/ cut.log[i].ev = "get_init_bind" /\ cut.log[i].x = cut.new_submodule_caller[k].key
     \/ cut.log[i].ev \in {"bind_arg", "async_call"} /\ cut.log[i].x \in InitBindsOn(k)}

\* The positions of the log at which a body expression is cloned into the
\* module of level k.
CloneEvents(k) == {i \in Calls("clone") : cut.log[i].mod = k}

\* C14 as stated: for every stage k > 0, every clone of a body expression of
\* stage k precedes the caller stitching of stage k.
C14_CloneBeforeStitch ==
  \A k \in DOMAIN cut.new_submodule_caller :
    \A i \in CloneEvents(k), j \in StitchEvents(k) : i < j

\* C14 amended: for every stage k > 0, the caller stitching of stage k, with
\* its async_call, precedes every clone of a body expression of stage k, and
\* every such clone precedes the caller stitching of stage k + 1.
C14_StitchBeforeClone ==
  \A k \in DOMAIN cut.new_submodule_caller :
    \A i \in CloneEvents(k) :
      /\ \A j \in StitchEvents(k) : j < i
      /\ \E j \in StitchEvents(k) : cut.log[j].ev = "async_call"
      /\ (k + 1) \in DOMAIN cut.new_submodule_caller =>
           \A j \in StitchEvents(k + 1) : i < j

\* C14, its case: the pass has finished after it has stitched a stage, cloned
\* its body and stitched the next stage.
C14_Witness ==
  /\ pc = "done"
  /\ \E k \in DOMAIN cut.new_submodule_caller :
       /\ (k + 1) \in DOMAIN cut.new_submodule_caller
       /\ CloneEvents(k) # {}
       /\ StitchEvents(k) # {}
       /\ StitchEvents(k + 1) # {}

\* Discovery has recorded a container for the module: the GraphVisitor has
\* walked it or is about to.
HasContainer == pc \notin {"start", "unflagged", "idle"}

\* C12: a module named "driver" or "testbench" is never flagged, also when it
\* contains a Barrier: it gets no container, no graph, and the IR stays as
\* the front end built it.
C12_HarnessNeverFlagged ==
  name \in HarnessNames =>
    /\ ~HasContainer
    /\ graph = NewGraph
    /\ cut = NewCut(module)

\* The pass is in discovery or analysis (GatherModulesToCut::enter), or has
\* left the module unflagged.
InEnter == pc \in {"start", "graph", "barrier_level", "submodules", "dfs", "unflagged"}

\* C13: during discovery and analysis the IR is as the front end built it
\* and no builder call has been made; a module without a Barrier never gets a
\* container or a graph, and its IR stays as built through the whole pass,
\* with no expression erased and no module created.
C13_AnalysisAndUnflaggedFrame ==
  /\ InEnter => cut = NewCut(module)
  /\ BarrierKeys = {} =>
       /\ ~HasContainer
       /\ graph = NewGraph
       /\ cut = NewCut(module)
       /\ DOMAIN cut.ir = {0} /\ cut.ir[0] = module /\ cut.erased = {} /\ cut.log = <<>>

\* C13, its case: the pass has left a module without a Barrier, with a seed
\* and a push, unflagged.
C13_Witness ==
  /\ pc = "unflagged"
  /\ BarrierKeys = {}
  /\ OpsAt(module, "FIFOPop") # {}
  /\ OpsAt(module, "FIFOPush") # {}

\* The positions of the log at which a Barrier expression of the module is
\* erased.
BarrierErasures == {j \in Calls("erase") : cut.log[j].x \in BarrierKeys}

\* C15: when cut_modules creates a module or clones a body expression, each
\* Barrier expression of the module has been erased before, and no erasure
\* of a Barrier expression comes after.
C15_BarrierErasureFirst ==
  \A i \in Calls("clone") \cup Calls("create_module") :
    /\ \A b \in BarrierKeys : \E j \in BarrierErasures : cut.log[j].x = b /\ j < i
    /\ \A j \in BarrierErasures : j < i

\* C15, its case: the pass has finished after it has erased two Barrier
\* expressions, created a module and cloned an expression into it.
C15_Witness ==
  /\ pc = "done"
  /\ Cardinality(BarrierErasures) = 2
  /\ Calls("create_module") # {}
  /\ Calls("clone") # {}

\* The erasures of the terminal stage, as positions of the log: those of the
\* captured caller expressions and those of the queued body expressions.
CallerErasures == {i \in Calls("erase") : cut.log[i].x \in graph.caller_expr}

BodyErasures == {i \in Calls("erase") : cut.log[i].x \notin graph.caller_expr \cup BarrierKeys}

\* C16 as stated: the keys that the terminal stage passes to
\* erase_from_parent, the caller expressions followed by the queued body
\* expressions, form one strictly decreasing sequence.
C16_ErasureDescending ==
  \A i, j \in CallerErasures \cup BodyErasures :
    i < j => cut.log[i].x > cut.log[j].x

\* C16 amended: the caller expressions are erased before the queued body
\* expressions, each of the two runs in strictly decreasing key order, and no
\* body expression is erased before an erased expression that uses it.
C16_ErasureDescendingPerGroup ==
  /\ \A i \in CallerErasures, j \in BodyErasures : i < j
  /\ \A i, j \in CallerErasures : i < j => cut.log[i].x > cut.log[j].x
  /\ \A i, j \in BodyErasures : i < j => cut.log[i].x > cut.log[j].x
  /\ \A i \in BodyErasures, j \in CallerErasures \cup BodyErasures :
       i < j => ~Contains(ExprOf(module, cut.log[j].x).args, cut.log[i].x)

\* C16, its case: the terminal stage has erased a push that comes, in program
\* order, before one of the two body expressions it has erased too.
C16_Witness ==
  /\ pc = "done"
  /\ Cardinality(BodyErasures) >= 2
  /\ \E i \in CallerErasures, j \in BodyErasures : cut.log[i].x < cut.log[j].x

\* cut_modules is at the head of its loop over the stages, or has returned.
BetweenStages == pc \in {"stage", "done"}

\* C17: the builder's current-module cursor is restored after each stage:
\* between the stages, and after cut_modules, it designates the module it
\* designated when cut_modules began.
C17_CursorRestored ==
  BetweenStages => cut.cur = NewCut(module).cur

\* The log holds the diagnostic of a skipped expression of unsupported opcode.
SkippedUnsupported == Calls("unsupported") # {}

\* C18: when cut_modules has skipped a body expression of unsupported opcode,
\* it does not abort, neither at a later clone that uses the skipped value
\* nor at the hand-off of the stage's buffered_barriers.
C18_UnsupportedSkippedNoAbort ==
  SkippedUnsupported => pc # "panic"

\* The module has no seed: no Load and no FIFOPop expression.
NoSeed == OpsAt(module, "FIFOPop") \cup OpsAt(module, "Load") = {}

\* cut_modules has begun to rewrite the IR or has completed.
Rewriting == pc \in {"stage", "stitch", "pops", "clone", "handoff", "terminal", "done", "idle"}

\* C19: a flagged module without a seed makes the pass abort: cut_modules
\* never erases its barriers and never completes on it.
C19_NoSeedAborts ==
  (NoSeed /\ BarrierKeys # {}) =>
    /\ ~Rewriting
    /\ cut.erased = {}

\* A run of the pass has completed: cut_modules has returned, or discovery
\* has flagged nothing.
Completed == pc \in {"done", "unflagged"}

\* C20: on the IR that a completed run has left, discovery flags no module,
\* neither the original one nor a module the run created, so that a second
\* run records no container and never analyses or rewrites anything; when
\* the first run flagged the module, no Barrier is left in it or in a module
\* created from it.
C20_SecondRunNoOp ==
  /\ Completed => Flagged(name, cut.ir) = {}
  /\ pc # "flagged_again"
  /\ (pc \in {"done", "idle"} /\ HasBarrier(name, module)) =>
       \A e \in Present : e.op # "Barrier"

\* C20, its case: the second run has ended on the IR of a first run that
\* erased a barrier and created a module with a wait_until and a clone.
C20_Witness ==
  /\ pc = "idle"
  /\ name = "driver"
  /\ BarrierKeys # {}
  /\ NewModuleCount > 0
  /\ \E k \in DOMAIN cut.new_submodule_caller : OpsAt(cut.ir[k], "WaitUntil") # {}
  /\ Calls("clone") # {}

\* gather_submodules run to its end under the iteration order iter of
\* submodule_barrier_map, from the state s after a dfs entry or return: the
\* graph it leaves, or the mark of a panic.
RECURSIVE RunWalkFrom(_)
RunWalkFrom(s) ==
  IF s.w.pending = None THEN [g |-> s.g, panic |-> FALSE]
  ELSE LET r == DfsEnter(s.g, s.w, s.w.pending)
           frame == [node |-> s.w.pending, new_level |-> r.new_level, ei |-> 1, fresh |-> r.fresh]
       IN IF r.panic THEN [g |-> NewGraph, panic |-> TRUE]
          ELSE RunWalkFrom(Advance([g |-> r.g, w |-> [s.w EXCEPT !.stack = Append(@, frame)]]))

RunWalk(g, iter) == RunWalkFrom(Advance([g |-> g, w |-> NewWalk(iter)]))

\* The stage assignment does not depend on the iteration order of
\* submodule_barrier_map.
WalkDeterministic ==
  pc = "submodules" =>
    \A i1, i2 \in Perms(DOMAIN graph.submodule_barrier_map) :
      RunWalk(graph, i1) = RunWalk(graph, i2)

\* The pops emitted into a new module do not depend on the iteration order
\* of ports_remapping_map.
PopsDeterministic ==
  pc = "pops" =>
    \A i1, i2 \in Perms(DOMAIN cut.ports_remapping_map) :
      PopPorts(cut, CurOrder, i1) = PopPorts(cut, CurOrder, i2)

\* What the terminal stage gathers from caller_expr does not depend on the
\* iteration order of caller_expr.
CallersDeterministic ==
  (pc = "pops" /\ IsTerminal(graph, CurOrder)) =>
    \A p1, p2 \in Perms(CallersOfOp(graph, module, "FIFOPush")) :
      \A b1, b2 \in Perms(CallersOfOp(graph, module, "Bind")) :
        \A i \in Perms(DOMAIN cut.ports_remapping_map) :
          GatherCallers(PopPorts(cut, CurOrder, i), graph, module, p1, b1)
            = GatherCallers(PopPorts(cut, CurOrder, i), graph, module, p2, b2)

\* The calls that the terminal stage emits again do not depend on the
\* iteration order of bind_node_str_map.
ReBindDeterministic ==
  pc = "terminal" =>
    \A i1, i2 \in Perms(DOMAIN cut.bind_node_str_map) :
      TerminalStage(cut, graph, i1) = TerminalStage(cut, graph, i2)

\* C21: two runs of the pass on the same module give the same stage
\* assignment and the same emitted IR, whatever the iteration orders of the
\* hash maps: those of submodule_barrier_map, ports_remapping_map,
\* caller_expr and bind_node_str_map.
C21_Deterministic ==
  /\ WalkDeterministic
  /\ PopsDeterministic
  /\ CallersDeterministic
  /\ ReBindDeterministic

\* C22: after gather_submodules on a flagged module with at least one seed,
\* the ports_in of the stage at level 0 is the list of the module's
\* Load/FIFOPop expressions.
C22_StageZeroPorts ==
  (Gathered /\ graph.module_ports # <<>>) =>
    /\ HasStageAt(graph, 0)
    /\ StageAt(graph, 0).buffered_ports = graph.module_ports

\* The paths of the dependency graph that start at b: b alone, and every
\* path extended by one edge.
Edges == {<<graph.adjacency[i].mom, graph.adjacency[i].child>> : i \in DOMAIN graph.adjacency}

RECURSIVE PathsExtending(_)
PathsExtending(P) ==
  LET more == P \cup {Append(p, e[2]) : p \in P, e \in {x \in Edges : \E q \in P : x[1] = q[Len(q)]}}
      ok == {p \in more : Len(p) = 1 \/ <<p[Len(p) - 1], p[Len(p)]>> \in Edges}
  IN IF ok = P THEN P ELSE PathsExtending(ok)

PathsOf(b) == PathsExtending({<<b>>})

\* The operands of the expression at key n that count: operand 0 of a Slice,
\* all operands otherwise.
CountedOperands(n) ==
  IF ~IsExprKey(module, n) THEN {}
  ELSE IF ExprOf(module, n).op = "Slice" THEN {ExprOf(module, n).args[1]}
  ELSE Range(ExprOf(module, n).args)

\* The operands, off the path, of the expressions strictly downstream of b.
OffPathOperands(b) ==
  UNION {UNION {CountedOperands(p[i]) \ Range(p) : i \in 2..Len(p)} : p \in PathsOf(b)}

\* The first position of b in barrier_list.
FirstAt(b) == CHOOSE i \in DOMAIN graph.barrier_list :
                /\ graph.barrier_list[i] = b
                /\ \A j \in 1..(i - 1) : graph.barrier_list[j] # b

\* C23: gather_barrier_level takes the barrier values in insertion order; a
\* value opens a stage exactly when no stage opened earlier lists it; the
\* port list of the stage keyed by b starts with b, has no duplicate, and
\* holds besides b exactly the operands (operand 0 for Slice) of the
\* expressions strictly downstream of b that are not on the path.
C23_BarrierLevel ==
  pc = "submodules" =>
    LET bm == graph.submodule_barrier_map
        bl == graph.barrier_list
    IN /\ DOMAIN bm \subseteq Range(bl)
       /\ \A b \in Range(bl) :
            b \in DOMAIN bm <=>
              ~\E j \in 1..(FirstAt(b) - 1) :
                  bl[j] \in DOMAIN bm /\ Contains(bm[bl[j]], b)
       /\ \A b \in DOMAIN bm :
            /\ bm[b][1] = b
            /\ \A i, j \in DOMAIN bm[b] : i # j => bm[b][i] # bm[b][j]
            /\ Range(bm[b]) \ {b} = OffPathOperands(b)

\* A barrier value that opens no stage because an earlier stage lists it,
\* and a port that is downstream of its barrier value.
C23_Witness ==
  /\ pc = "submodules"
  /\ \E b \in Range(graph.barrier_list) : b \notin DOMAIN graph.submodule_barrier_map
  /\ \E b \in DOMAIN graph.submodule_barrier_map :
       \E p \in PathsOf(b) : Len(p) > 1 /\ Contains(graph.submodule_barrier_map[b], p[Len(p)])

\* C24: when cut_modules has completed, every original expression that was
\* cloned into a stage module, of any stage k > 0, is erased from the
\* original module.
C24_ClonedOriginalsErased ==
  pc = "done" =>
    \A i \in Calls("clone") :
      cut.log[i].mod > 0 => ~IsExprKey(cut.ir[0], cut.log[i].x)

\* The order processed last, when the loop of cut_modules is between two
\* stages.
AfterStage == pc = "stage" /\ cut.oi > 1

LastOrder == Orders(graph)[cut.oi - 1]

\* C25: after stage k the hand-off map has one entry per key of the stage's
\* barriers_out and no other, to the original node for k = 0 and to the
\* remapped node for k > 0, and the lookup that fills an entry never fails.
C25_HandOffMap ==
  /\ AfterStage =>
       LET w == cut.nodes_waiting_for_asyncall
           out == StageAt(graph, LastOrder).buffered_barriers
       IN /\ DOMAIN w = Range(out)
          /\ \A p \in DOMAIN w :
               w[p] = IF LastOrder = 0 THEN p ELSE cut.node_remapping_map[p]
  /\ (pc = "stage" /\ cut.oi <= Len(Orders(graph)) /\ CurOrder = 0) =>
       ~HandOffOriginal(cut, CurStage).panic
  /\ pc = "handoff" => ~HandOff(cut, CurStage).panic

\* The expressions reachable in the dependency graph from some seed.
ReachableFromSeeds ==
  UNION {UNION {Range(p) : p \in PathsOf(graph.module_ports[i])} : i \in DOMAIN graph.module_ports}

\* The stages whose body holds n.
StagesHolding(n) ==
  {k \in DOMAIN graph.submodule_map : n \in graph.submodule_map[k].buffered_expr}

\* C26: after gather_submodules every expression reachable from a seed is in
\* the body of exactly one stage, and an expression that the walk has put
\* in a body stays in it: no later step removes it or discards its stage.
C26_BodyOfOneStage ==
  /\ Gathered => \A n \in ReachableFromSeeds : Cardinality(StagesHolding(n)) = 1
  /\ (pc = "dfs" \/ Gathered) => \A n \in walk.used_nodes : Cardinality(StagesHolding(n)) = 1

\* C27: during gather_submodules and after it, the keys of the order map
\* are the range 0..n-1 and the map is injective, one stage of the stage
\* map per level, so that the terminal test of the rewrite selects the last
\* level and no other.
C27_OrderMapInjective ==
  (pc = "dfs" \/ Gathered) =>
    /\ Levels = 0..(Cardinality(Levels) - 1)
    /\ \A i, j \in Levels : i # j => graph.submodule_order[i] # graph.submodule_order[j]
    /\ Cardinality(DOMAIN graph.submodule_map) = Cardinality(Levels)
    /\ \A k \in Levels : IsTerminal(graph, k) <=> \A j \in Levels : j <= k

\* C28: on a module with at least one seed, whenever the walk of
\* gather_submodules reads the stage of current_level, the order map has
\* an entry for the level and the stage map an entry for its key.
C28_LevelHasStage ==
  (pc = "dfs" /\ graph.module_ports # <<>>) => HasStageAt(graph, walk.current_level)

====
